---- MODULE Spec2Model ----
(***************************************************************************)
(* HymyPassi feedback survey (src/App.tsx, the second, current listing of  *)
(* the file, lines 350-718): the survey answers held by SurveyProvider and *)
(* the native-stack navigator's route stack, driven by the press handlers  *)
(* of the nine screens.                                                    *)
(***************************************************************************)
EXTENDS Integers, Sequences, FiniteSets, TLC

VARIABLES
    answers,    \* SurveyProvider's useState<SurveyAnswers>
    stack,      \* the Stack.Navigator's routes, bottom first; the last is on screen
    stored,     \* the responses written to durable storage so far
    pending,    \* the writes issued to durable storage and not yet completed
    taps,       \* the unlock gesture's rolling record of activation times (ms)
    activations \* every activation time of the unlock trigger so far (ms)

vars == <<answers, stack, stored, pending, taps, activations>>

----------------------------------------------------------------------------
(* Bounds of the model *)

\* largest rating named by a patch when update is exercised on its own
MaxPatchStar == 1

\* most writes issued to durable storage and not failed
MaxStored == 3

\* most activations of the unlock trigger
MaxActivations == 4

\* longest feedback text typed into the TextInput
MaxFeedbackLen == 1

----------------------------------------------------------------------------
(* Data of the program *)

\* q5: boolean | null
Null == "null"
True == "true"
False == "false"

\* the stars numbered from 0, as array indexes are
StarValues_FromZero == 0..4

\* RatingStars renders one Pressable per n in [1, 2, 3, 4, 5]
MaxStars == 5
StarValues == 1..MaxStars

\* the Picker's items; services[1] (services[0] in the source) is the placeholder
services ==
    << "Valitse palvelu", "Apuvälinepalvelut", "Fysioterapiapalvelut",
       "Hoitajavastaanotto", "Jalkaterapiapalvelut",
       "KyläOPTIKKO -optikkopalvelut", "Ohjattu ryhmätoiminta",
       "Osteopatiapalvelut", "Perhevalmennus", "Senioripalvelut",
       "Suun terveydenhuollon palvelut", "Toimintaterapiapalvelut", "Muu" >>

\* the texts onChangeText may deliver
RECURSIVE TextsUpTo(_)
TextsUpTo(n) ==
    IF n = 0 THEN {""} ELSE LET S == TextsUpTo(n - 1) IN S \cup {t \o "a" : t \in S}
FeedbackTexts == TextsUpTo(MaxFeedbackLen)

\* the route names registered with Stack.Screen
RouteNames ==
    {"Start", "Q1", "Q2", "Q3", "Q4", "Q5", "OpenFeedback", "Service", "Submit"}

\* the routes rendered by GenericStarQuestion
StarRoutes == {"Q1", "Q2", "Q3", "Q4"}

\* initialParams with Q4's keyName copied from Q3's
initialParams_KeyCopied(name) ==
    CASE name = "Q1" -> [keyName |-> "q1", next |-> "Q2"]
      [] name = "Q2" -> [keyName |-> "q2", next |-> "Q3"]
      [] name = "Q3" -> [keyName |-> "q3", next |-> "Q4"]
      [] name = "Q4" -> [keyName |-> "q3", next |-> "Q5"]

\* initialParams with Q2's next pointing past Q3
initialParams_SkipQ3(name) ==
    CASE name = "Q1" -> [keyName |-> "q1", next |-> "Q2"]
      [] name = "Q2" -> [keyName |-> "q2", next |-> "Q4"]
      [] name = "Q3" -> [keyName |-> "q3", next |-> "Q4"]
      [] name = "Q4" -> [keyName |-> "q4", next |-> "Q5"]

\* initialParams of the four GenericStarQuestion routes
initialParams(name) ==
    CASE name = "Q1" -> [keyName |-> "q1", next |-> "Q2"]
      [] name = "Q2" -> [keyName |-> "q2", next |-> "Q3"]
      [] name = "Q3" -> [keyName |-> "q3", next |-> "Q4"]
      [] name = "Q4" -> [keyName |-> "q4", next |-> "Q5"]

\* the initial value of useState<SurveyAnswers>
DefaultAnswers ==
    [q1 |-> 0, q2 |-> 0, q3 |-> 0, q4 |-> 0, q5 |-> Null, feedback |-> "", service |-> ""]

----------------------------------------------------------------------------
(* SurveyProvider *)

\* setAnswers(patch) over the initial object: the fields not named are lost
update_Replace(s, patch) ==
    [k \in DOMAIN s \cup DOMAIN patch |->
        IF k \in DOMAIN patch THEN patch[k] ELSE DefaultAnswers[k]]

\* setAnswers((s) => ({ ...s, ...patch })): patch is a function on the keys it names
update(s, patch) ==
    [k \in DOMAIN s \cup DOMAIN patch |-> IF k \in DOMAIN patch THEN patch[k] ELSE s[k]]

\* the values a Partial<SurveyAnswers> may give a field
PatchValues(k) ==
    CASE k \in {"q1", "q2", "q3", "q4"} -> 0..MaxPatchStar
      [] k = "q5" -> {Null, True, False}
      [] k = "feedback" -> TextsUpTo(1)
      [] k = "service" -> {"", services[Len(services)]}

\* the patches naming one field, and those naming two
SinglePatches == {k :> v : <<k, v>> \in
                    UNION {{k} \X PatchValues(k) : k \in DOMAIN DefaultAnswers}}
PairPatches ==
    {p1 @@ p2 : <<p1, p2>> \in
        {pp \in SinglePatches \X SinglePatches : DOMAIN pp[1] # DOMAIN pp[2]}}
Patches == SinglePatches \cup PairPatches

\* a call of the context's update by whichever component holds it
SurveyProvider_update(patch) ==
    /\ answers' = update(answers, patch)
    /\ UNCHANGED <<stack, stored, pending, taps, activations>>

----------------------------------------------------------------------------
(* Navigation: the route stack *)

Top == stack[Len(stack)]

\* navigation.navigate(name): a route not on the stack is pushed; a route already on
\* the stack is returned to
navigate(st, name) ==
    IF \E i \in 1..Len(st) : st[i] = name
    THEN SubSeq(st, 1, CHOOSE i \in 1..Len(st) : st[i] = name)
    ELSE Append(st, name)

\* goBack confused with popToTop
goBack_ToRoot(st) == SubSeq(st, 1, 1)

\* navigation.goBack(): pops the focused route when there is one below it
goBack(st) == IF Len(st) > 1 THEN SubSeq(st, 1, Len(st) - 1) ELSE st

\* navigation.popToTop(): back to the first route of the stack
popToTop(st) == SubSeq(st, 1, 1)

----------------------------------------------------------------------------
(* Initial state: SurveyProvider mounted, the navigator showing its first route *)

Init ==
    /\ answers = DefaultAnswers
    /\ stack = <<"Start">>
    /\ stored = <<>>
    /\ pending = <<>>
    /\ taps = <<>>
    /\ activations = <<>>

----------------------------------------------------------------------------
(* StartScreen *)

\* "Aloita": onPress={() => navigation.navigate("Q1")}
StartScreen_onPress ==
    /\ Top = "Start"
    /\ stack' = navigate(stack, "Q1")
    /\ UNCHANGED <<answers, stored, pending, taps, activations>>

----------------------------------------------------------------------------
(* GenericStarQuestion, mounted as Q1..Q4 *)

\* the disabled test reading q1 on every rating screen
GenericStarQuestion_disabled_FirstKey(a, keyName) == a.q1 = 0

\* disabled={!answers[keyName]}: a number is falsy when it is 0
GenericStarQuestion_disabled(a, keyName) == a[keyName] = 0

\* RatingStars onChange={(v) => update({ [keyName]: v })}
GenericStarQuestion_onChange(name, v) ==
    /\ Top = name
    /\ answers' = update(answers, initialParams(name).keyName :> v)
    /\ UNCHANGED <<stack, stored, pending, taps, activations>>

\* "Takaisin": onPress={() => navigation.goBack()}
GenericStarQuestion_goBack(name) ==
    /\ Top = name
    /\ stack' = goBack(stack)
    /\ UNCHANGED <<answers, stored, pending, taps, activations>>

\* "Seuraava": onPress={() => navigation.navigate(next)}
GenericStarQuestion_next(name) ==
    /\ Top = name
    /\ ~GenericStarQuestion_disabled(answers, initialParams(name).keyName)
    /\ stack' = navigate(stack, initialParams(name).next)
    /\ UNCHANGED <<answers, stored, pending, taps, activations>>

----------------------------------------------------------------------------
(* Question5 *)

\* the disabled test written !answers.q5, which is also true of false
Question5_disabled_Falsy(a) == a.q5 # True

\* disabled={answers.q5 === null}
Question5_disabled(a) == a.q5 = Null

\* the ternary's branches swapped
Question5_target_Swapped(a) == IF a.q5 = True THEN "Service" ELSE "OpenFeedback"

\* answers.q5 ? "OpenFeedback" : "Service"
Question5_target(a) == IF a.q5 = True THEN "OpenFeedback" ELSE "Service"

\* a second press of the selected pill clearing the answer
Question5_onChange_Toggle(v) ==
    /\ Top = "Q5"
    /\ answers' = update(answers, "q5" :> (IF answers.q5 = v THEN Null ELSE v))
    /\ UNCHANGED <<stack, stored, pending, taps, activations>>

\* YesNo onChange={(v) => update({ q5: v })}, v true ("Kyllä") or false ("Ei")
Question5_onChange(v) ==
    /\ Top = "Q5"
    /\ answers' = update(answers, "q5" :> v)
    /\ UNCHANGED <<stack, stored, pending, taps, activations>>

Question5_goBack ==
    /\ Top = "Q5"
    /\ stack' = goBack(stack)
    /\ UNCHANGED <<answers, stored, pending, taps, activations>>

Question5_next ==
    /\ Top = "Q5"
    /\ ~Question5_disabled(answers)
    /\ stack' = navigate(stack, Question5_target(answers))
    /\ UNCHANGED <<answers, stored, pending, taps, activations>>

----------------------------------------------------------------------------
(* OpenFeedback *)

\* TextInput onChangeText={(t) => update({ feedback: t })}
OpenFeedback_onChangeText(t) ==
    /\ Top = "OpenFeedback"
    /\ answers' = update(answers, "feedback" :> t)
    /\ UNCHANGED <<stack, stored, pending, taps, activations>>

OpenFeedback_goBack ==
    /\ Top = "OpenFeedback"
    /\ stack' = goBack(stack)
    /\ UNCHANGED <<answers, stored, pending, taps, activations>>

\* "Seuraava" disabled while the text is empty
OpenFeedback_next_RequiresText ==
    /\ Top = "OpenFeedback"
    /\ answers.feedback # ""
    /\ stack' = navigate(stack, "Service")
    /\ UNCHANGED <<answers, stored, pending, taps, activations>>

\* "Seuraava" navigating past Service
OpenFeedback_next_ToSubmit ==
    /\ Top = "OpenFeedback"
    /\ stack' = navigate(stack, "Submit")
    /\ UNCHANGED <<answers, stored, pending, taps, activations>>

\* "Seuraava" carries no disabled prop
OpenFeedback_next ==
    /\ Top = "OpenFeedback"
    /\ stack' = navigate(stack, "Service")
    /\ UNCHANGED <<answers, stored, pending, taps, activations>>

----------------------------------------------------------------------------
(* Service *)

\* "Lähetä" without its disabled prop
Service_disabled_Never(a) == FALSE

\* disabled={!answers.service}: a string is falsy when it is empty
Service_disabled(a) == a.service = ""

\* the comparison still naming the placeholder of the earlier item list
Service_picked_OldLabel(v) == IF v = "Valitse..." THEN "" ELSE v

\* the picked item stored as it is, the placeholder label included
Service_picked_Raw(v) == v

\* v === "Valitse palvelu" ? "" : v
Service_picked(v) == IF v = "Valitse palvelu" THEN "" ELSE v

\* Picker onValueChange={(v) => update({ service: ... })}, v one of the items
Service_onValueChange(v) ==
    /\ Top = "Service"
    /\ answers' = update(answers, "service" :> Service_picked(v))
    /\ UNCHANGED <<stack, stored, pending, taps, activations>>

\* skipService without its update
skipService_NoUpdate ==
    /\ Top = "Service"
    /\ stack' = navigate(stack, "Submit")
    /\ UNCHANGED <<answers, stored, pending, taps, activations>>

\* "En halua kertoa tätä": update({ service: "" }); navigation.navigate("Submit")
skipService ==
    /\ Top = "Service"
    /\ answers' = update(answers, "service" :> "")
    /\ stack' = navigate(stack, "Submit")
    /\ UNCHANGED <<stored, pending, taps, activations>>

Service_goBack ==
    /\ Top = "Service"
    /\ stack' = goBack(stack)
    /\ UNCHANGED <<answers, stored, pending, taps, activations>>

\* "Lähetä": onPress={() => navigation.navigate("Submit")}
Service_next ==
    /\ Top = "Service"
    /\ ~Service_disabled(answers)
    /\ stack' = navigate(stack, "Submit")
    /\ UNCHANGED <<answers, stored, pending, taps, activations>>

----------------------------------------------------------------------------
(* SubmitScreen *)

\* "Uusi vastaus": onPress={() => navigation.popToTop()}.  The component reads no
\* context, runs no effect and writes nothing: answers and stored are left alone.
SubmitScreen_onPress ==
    /\ Top = "Submit"
    /\ stack' = popToTop(stack)
    /\ UNCHANGED <<answers, stored, pending, taps, activations>>

----------------------------------------------------------------------------
Next ==
    \/ StartScreen_onPress
    \/ \E name \in StarRoutes, v \in StarValues : GenericStarQuestion_onChange(name, v)
    \/ \E name \in StarRoutes : GenericStarQuestion_goBack(name)
    \/ \E name \in StarRoutes : GenericStarQuestion_next(name)
    \/ \E v \in {True, False} : Question5_onChange(v)
    \/ Question5_goBack
    \/ Question5_next
    \/ \E t \in FeedbackTexts : OpenFeedback_onChangeText(t)
    \/ OpenFeedback_goBack
    \/ OpenFeedback_next
    \/ \E i \in 1..Len(services) : Service_onValueChange(services[i])
    \/ skipService
    \/ Service_goBack
    \/ Service_next
    \/ SubmitScreen_onPress

Spec == Init /\ [][Next]_vars

\* update exercised on its own, over every patch of the bounded sets
PatchNext == \E patch \in Patches : SurveyProvider_update(patch)

PatchSpec == Init /\ [][PatchNext]_vars

----------------------------------------------------------------------------
(* PersistenceLayer and ExportService.  src/App.tsx holds no code of them: they *)
(* are modelled from the specification's sections 4.3, 4.4, 5 and 6.            *)

\* the tri-state flag as stored: absent, 0 or 1 (a set with at most one element)
EncodeFlag(f) == CASE f = Null -> {} [] f = False -> {0} [] f = True -> {1}

\* the stored flag as read back
DecodeFlag(c) == IF c = {} THEN Null ELSE IF c = {0} THEN False ELSE True

\* the flag as rendered in an export row
RenderFlag(f) == CASE f = Null -> "" [] f = False -> "0" [] f = True -> "1"

\* the identity the next row is given: above every identity of the table
NextId(table) ==
    IF table = <<>> THEN 1
    ELSE 1 + (CHOOSE m \in {table[i].id : i \in DOMAIN table} :
                \A i \in DOMAIN table : table[i].id <= m)

\* the row a write of rec adds to the table; created_at is the write's logical time.
\* The texts of the model hold no surrounding whitespace for the trim to remove.
StoredRecord(table, rec) ==
    [id |-> NextId(table), created_at |-> Len(table) + 1,
     q1 |-> rec.q1, q2 |-> rec.q2, q3 |-> rec.q3, q4 |-> rec.q4,
     q5 |-> EncodeFlag(rec.q5), feedback |-> rec.feedback, service |-> rec.service]

\* the records handed to commit
CommitRecords ==
    {update(DefaultAnswers,
            ("q1" :> 1) @@ ("q2" :> 1) @@ ("q3" :> 1) @@ ("q4" :> v) @@ ("q5" :> f)) :
        v \in {1, MaxStars}, f \in {Null, True, False}}

RemoveAt(seq, i) == SubSeq(seq, 1, i - 1) \o SubSeq(seq, i + 1, Len(seq))

\* commit(record) is called: the asynchronous write is issued
PersistenceLayer_commit(rec) ==
    /\ Len(stored) + Len(pending) < MaxStored
    /\ pending' = Append(pending, rec)
    /\ UNCHANGED <<answers, stack, stored, taps, activations>>

\* an issued write completes: one new row, never an update or a delete
PersistenceLayer_commitDone(i) ==
    /\ i \in 1..Len(pending)
    /\ stored' = Append(stored, StoredRecord(stored, pending[i]))
    /\ pending' = RemoveAt(pending, i)
    /\ UNCHANGED <<answers, stack, taps, activations>>

\* an issued write fails with StorageError: nothing is stored
PersistenceLayer_commitFailed(i) ==
    /\ i \in 1..Len(pending)
    /\ pending' = RemoveAt(pending, i)
    /\ UNCHANGED <<answers, stack, stored, taps, activations>>

\* ORDER BY id DESC
RECURSIVE SortById_Descending(_)
SortById_Descending(rows) ==
    IF rows = {} THEN <<>>
    ELSE LET first == CHOOSE r \in rows : \A x \in rows : r.id >= x.id
         IN  <<first>> \o SortById_Descending(rows \ {first})

\* ORDER BY id ASC
RECURSIVE SortById(_)
SortById(rows) ==
    IF rows = {} THEN <<>>
    ELSE LET first == CHOOSE r \in rows : \A x \in rows : r.id <= x.id
         IN  <<first>> \o SortById(rows \ {first})

\* queryAll reading the newest row first
queryAll_Descending(table) ==
    LET rows == SortById_Descending({table[i] : i \in DOMAIN table})
    IN  [i \in 1..Len(rows) |-> [rows[i] EXCEPT !.q5 = DecodeFlag(rows[i].q5)]]

\* queryAll(): every row, ascending by identity, the flag decoded
queryAll(table) ==
    LET rows == SortById({table[i] : i \in DOMAIN table})
    IN  [i \in 1..Len(rows) |-> [rows[i] EXCEPT !.q5 = DecodeFlag(rows[i].q5)]]

ExportHeader == <<"id", "created_at", "q1", "q2", "q3", "q4", "q5", "feedback", "service">>

\* one record's fields in column order, before they are joined with commas (the
\* texts of the model hold no comma, quote or newline to escape)
ExportRow(r) ==
    <<r.id, r.created_at, r.q1, r.q2, r.q3, r.q4, RenderFlag(r.q5), r.feedback, r.service>>

\* exportAll(): the header row, then one row per stored record as queryAll gives them
exportAll(table) ==
    LET q == queryAll(table)
    IN  <<ExportHeader>> \o [i \in 1..Len(q) |-> ExportRow(q[i])]

StoreNext ==
    \/ \E rec \in CommitRecords : PersistenceLayer_commit(rec)
    \/ \E i \in 1..MaxStored : PersistenceLayer_commitDone(i)
    \/ \E i \in 1..MaxStored : PersistenceLayer_commitFailed(i)

StoreSpec == Init /\ [][StoreNext]_vars

----------------------------------------------------------------------------
(* AdminGate's unlock gesture.  src/App.tsx holds no code of it: it is modelled *)
(* from the specification's section 4.5.                                        *)

\* N activations
UnlockCount == 3

\* within a trailing window of 900 ms
UnlockWindow == 900

\* the times between one activation and the next (ms)
Gaps == {0, 450, 451, 900, 901}

\* the record never trimmed: old entries keep counting
trimWindow_KeepAll(ts, now) == ts

\* the record without the entries older than the window ending at now
trimWindow(ts, now) ==
    LET Recent(t) == now - t <= UnlockWindow IN SelectSeq(ts, Recent)

\* unlockGesture(eventTimestamps): at least N activations in the window ending at the
\* most recent one
unlockGesture(ts) ==
    /\ ts # <<>>
    /\ Len(trimWindow(ts, ts[Len(ts)])) >= UnlockCount

\* the trigger is activated gap ms after the previous activation: the time is added
\* to the rolling record, which is trimmed on each call
AdminGate_activate(gap) ==
    /\ Len(activations) < MaxActivations
    /\ LET now == IF activations = <<>> THEN gap
                  ELSE activations[Len(activations)] + gap
       IN  /\ taps' = trimWindow(Append(taps, now), now)
           /\ activations' = Append(activations, now)
    /\ UNCHANGED <<answers, stack, stored, pending>>

GateNext == \E gap \in Gaps : AdminGate_activate(gap)

GateSpec == Init /\ [][GateNext]_vars

TypeOK ==
    /\ DOMAIN answers = DOMAIN DefaultAnswers
    /\ \A k \in {"q1", "q2", "q3", "q4"} : answers[k] \in 0..MaxStars
    /\ answers.q5 \in {Null, True, False}
    /\ answers.feedback \in FeedbackTexts
    /\ answers.service \in {""} \cup {services[i] : i \in 2..Len(services)}
    /\ stack \in Seq(RouteNames) /\ Len(stack) >= 1
    /\ stored = <<>> /\ pending = <<>>
    /\ taps = <<>> /\ activations = <<>>

----------------------------------------------------------------------------
(* The flow as the specification words it, for stating the claims *)

\* the rating field each rating screen is said to own
RatingField == [Q1 |-> "q1", Q2 |-> "q2", Q3 |-> "q3", Q4 |-> "q4"]

\* the successor each rating screen is said to lead to
Successor == [Q1 |-> "Q2", Q2 |-> "Q3", Q3 |-> "Q4", Q4 |-> "Q5"]

\* the stack with its top route removed
Below(st) == SubSeq(st, 1, Len(st) - 1)

\* a step that puts a new route on top of the unchanged stack
Pushes(name) == stack' = Append(stack, name)

----------------------------------------------------------------------------
(* C1 *)

\* C1: on each rating screen Q1..Q4 the "next" press is disabled exactly when the
\* screen's own rating is 0 and enabled for every rating 1..5; when taken it pushes
\* the screen's configured successor (Q1->Q2, Q2->Q3, Q3->Q4, Q4->Q5).
C1_StarNextGating ==
    /\ [](\A name \in StarRoutes : Top = name =>
            /\ (~ENABLED GenericStarQuestion_next(name)) <=> answers[RatingField[name]] = 0
            /\ answers[RatingField[name]] \in 1..5 => ENABLED GenericStarQuestion_next(name))
    /\ [][\A name \in StarRoutes :
            GenericStarQuestion_next(name) => Pushes(Successor[name])]_vars

\* Q2 was rated 5, its "next" was taken, and Q3 is on screen still unrated
C1_Witness ==
    /\ stack = <<"Start", "Q1", "Q2", "Q3">>
    /\ answers.q2 = 5
    /\ answers.q3 = 0

----------------------------------------------------------------------------
(* C2 *)

\* C2: a forward step out of Q5 pushes OpenFeedback when the flag is true and Service
\* when it is false, whatever the other fields hold; the forward step out of
\* OpenFeedback pushes Service.
C2_BranchByFlag ==
    /\ [][(Top = "Q5" /\ Len(stack') > Len(stack)) =>
            /\ answers.q5 = True => Pushes("OpenFeedback")
            /\ answers.q5 = False => Pushes("Service")
            /\ answers.q5 \in {True, False}]_vars
    /\ [][(Top = "OpenFeedback" /\ Len(stack') > Len(stack)) => Pushes("Service")]_vars

\* the flag was true on leaving Q5: OpenFeedback was pushed, then Service
C2_Witness ==
    /\ Len(stack) = 8
    /\ SubSeq(stack, 6, 8) = <<"Q5", "OpenFeedback", "Service">>
    /\ answers.q5 = True

----------------------------------------------------------------------------
(* C3 *)

\* C3: on Q5 the "next" press is enabled exactly when the flag is true or false; while
\* the flag is null the only step that leaves Q5 is "back".
C3_Q5NextGating ==
    /\ [](Top = "Q5" => ((ENABLED Question5_next) <=> answers.q5 \in {True, False}))
    /\ [][(Top = "Q5" /\ answers.q5 = Null /\ stack' # stack) => stack' = Below(stack)]_vars

\* Q5 is on screen, reached through Q4's "next", with the flag still unanswered
C3_Witness ==
    /\ Top = "Q5"
    /\ answers.q4 \in 1..5
    /\ answers.q5 = Null

----------------------------------------------------------------------------
(* C4 *)

\* C4: a session that reaches Submit creates exactly one stored record, a commit of
\* the session's answers, on entering Submit; a step that stays on Submit creates
\* none.
C4_ExactlyOnceCommit ==
    [][/\ (Top # "Submit" /\ Top' = "Submit") =>
            /\ Len(stored') = Len(stored) + 1
            /\ stored' = Append(stored, StoredRecord(stored, answers'))
       /\ (Top = "Submit" /\ Top' = "Submit") => stored' = stored]_vars

----------------------------------------------------------------------------
(* C5 *)

\* C5: the "new response" press on Submit leaves the stack exactly <<Start>> and the
\* answers all default (ratings 0, flag unanswered, feedback "", category "").
C5_NewResponseResets ==
    [][SubmitScreen_onPress =>
            /\ stack' = <<"Start">>
            /\ answers' = DefaultAnswers]_vars

----------------------------------------------------------------------------
(* C6 *)

\* C6: on Service the decline-to-disclose press is always possible, whatever the
\* category holds; it sets the category to "" (no other field changes) and pushes
\* Submit, also when the normal "next" is disabled.
C6_DeclineToDisclose ==
    /\ [](Top = "Service" => ENABLED skipService)
    /\ [][skipService =>
            /\ answers'.service = ""
            /\ \A k \in DOMAIN answers \ {"service"} : answers'[k] = answers[k]
            /\ Pushes("Submit")]_vars

\* Submit is on screen with an empty category: only the decline press leads there
C6_Witness ==
    /\ Top = "Submit"
    /\ answers.service = ""

----------------------------------------------------------------------------
(* C7 *)

\* C7: on Service the normal "next" press is enabled exactly when the category is a
\* non-empty string; a step from Service to Submit is either that press (category
\* non-empty, answers untouched) or the decline press (category set to "").
C7_ServiceNextGating ==
    /\ [](Top = "Service" => ((ENABLED Service_next) <=> answers.service # ""))
    /\ [][(Top = "Service" /\ Top' = "Submit") =>
            \/ answers.service # "" /\ answers' = answers
            \/ answers'.service = ""]_vars

\* Submit was entered by the normal "next": the category chosen is still there
C7_Witness ==
    /\ Top = "Submit"
    /\ answers.service = "Muu"

----------------------------------------------------------------------------
(* C8 *)

\* the screens that render a "Takaisin" button
BackScreens == {"Q1", "Q2", "Q3", "Q4", "Q5", "OpenFeedback", "Service"}

\* a press of "Takaisin" on whichever screen shows it
BackPress ==
    \/ \E name \in StarRoutes : GenericStarQuestion_goBack(name)
    \/ Question5_goBack
    \/ OpenFeedback_goBack
    \/ Service_goBack

\* C8: "back" can be pressed on each of Q1..Q5, OpenFeedback and Service; it removes
\* exactly the top route, so the route immediately below becomes the top (below
\* Service that is OpenFeedback or Q5, whichever Service was entered from), and it
\* leaves every field of the answers unchanged.
C8_BackPopsOne ==
    /\ [](Top \in BackScreens => ENABLED BackPress)
    /\ [](Top = "Service" => stack[Len(stack) - 1] \in {"OpenFeedback", "Q5"})
    /\ [][BackPress =>
            /\ stack' = Below(stack)
            /\ Top' = stack[Len(stack) - 1]
            /\ answers' = answers]_vars

\* Service entered from Q5 directly, with answers filled in for "back" to preserve
C8_Witness ==
    /\ Len(stack) = 7
    /\ SubSeq(stack, 6, 7) = <<"Q5", "Service">>
    /\ answers.service # ""
    /\ answers.feedback # ""

----------------------------------------------------------------------------
(* C9 *)

\* C9: whenever Submit is on screen, each of q1..q4 is in 1..5 and the flag is true or
\* false.
C9_SubmitHasAnswers ==
    Top = "Submit" =>
        /\ \A k \in {"q1", "q2", "q3", "q4"} : answers[k] \in 1..5
        /\ answers.q5 \in {True, False}

\* Submit on screen in a session that went back and changed the flag to "no" after
\* feedback was typed
C9_Witness ==
    /\ Top = "Submit"
    /\ answers.q5 = False
    /\ answers.feedback # ""

----------------------------------------------------------------------------
(* C10 *)

\* the two complete paths of the flow
LongPath ==
    <<"Start", "Q1", "Q2", "Q3", "Q4", "Q5", "OpenFeedback", "Service", "Submit">>
ShortPath == <<"Start", "Q1", "Q2", "Q3", "Q4", "Q5", "Service", "Submit">>

\* the order's forward edges
ForwardEdges ==
    { <<"Start", "Q1">>, <<"Q1", "Q2">>, <<"Q2", "Q3">>, <<"Q3", "Q4">>, <<"Q4", "Q5">>,
      <<"Q5", "OpenFeedback">>, <<"Q5", "Service">>, <<"OpenFeedback", "Service">>,
      <<"Service", "Submit">> }

\* C10: every forward step pushes one screen, along an edge of the order Start, Q1,
\* Q2, Q3, Q4, Q5, (OpenFeedback,) Service, Submit; OpenFeedback is entered only with
\* the flag true and Service from Q5 only with it false; Submit is entered only from
\* Service, and the stack then is one of the two complete paths.
C10_FixedOrder ==
    /\ [][Len(stack') > Len(stack) =>
            /\ stack' = Append(stack, Top')
            /\ <<Top, Top'>> \in ForwardEdges
            /\ Top' = "OpenFeedback" => answers.q5 = True
            /\ (Top = "Q5" /\ Top' = "Service") => answers.q5 = False]_vars
    /\ [][(Top # "Submit" /\ Top' = "Submit") => Top = "Service"]_vars
    /\ [](Top = "Submit" => stack \in {LongPath, ShortPath})

\* Submit reached along the path without OpenFeedback
C10_Witness ==
    /\ stack = ShortPath
    /\ answers.q5 = False

----------------------------------------------------------------------------
(* C11 *)

RatingKeys == {"q1", "q2", "q3", "q4"}

\* C11: every rating q1..q4 is always an integer in 0..5, and no step turns a rating
\* that is non-zero back into 0.
C11_RatingsStaySet ==
    /\ [](\A k \in RatingKeys : answers[k] \in 0..5)
    /\ [][\A k \in RatingKeys : answers[k] # 0 => answers'[k] # 0]_vars

\* a rating given in an earlier session is still there after "new response"
C11_Witness ==
    /\ stack = <<"Start">>
    /\ \A k \in RatingKeys : answers[k] \in 1..5

----------------------------------------------------------------------------
(* C12 *)

\* C12: once the flag is true or false no step makes it null again; it changes only
\* in a step that starts and ends with Q5 on screen.
C12_FlagStaysResolved ==
    /\ [][answers.q5 # Null => answers'.q5 # Null]_vars
    /\ [][answers'.q5 # answers.q5 =>
            /\ Top = "Q5" /\ stack' = stack
            /\ answers'.q5 \in {True, False}]_vars

\* back on Q5 after OpenFeedback was visited, the flag switched from yes to no
C12_Witness ==
    /\ Top = "Q5"
    /\ answers.q5 = False
    /\ answers.feedback # ""

----------------------------------------------------------------------------
(* C13 *)

\* C13: an update changes exactly the fields its patch names, to the values given,
\* and leaves every other field as it was; two updates naming different fields both
\* take effect, in either order.
C13_PatchMerges ==
    /\ [][\A p \in Patches : SurveyProvider_update(p) =>
            /\ DOMAIN answers' = DOMAIN answers
            /\ \A k \in DOMAIN answers :
                    answers'[k] = IF k \in DOMAIN p THEN p[k] ELSE answers[k]]_vars
    /\ [](\A p1, p2 \in SinglePatches : DOMAIN p1 # DOMAIN p2 =>
            LET a == update(update(answers, p1), p2)
                b == update(update(answers, p2), p1)
            IN  /\ a = b
                /\ \A k \in DOMAIN answers :
                        a[k] = IF k \in DOMAIN p1 THEN p1[k]
                               ELSE IF k \in DOMAIN p2 THEN p2[k] ELSE answers[k])

\* q1 and the category were patched; the fields not named are still the defaults
C13_Witness ==
    /\ answers.q1 = 1
    /\ answers.service = "Muu"
    /\ \A k \in {"q2", "q3", "q4", "q5", "feedback"} : answers[k] = DefaultAnswers[k]

----------------------------------------------------------------------------
(* C14 *)

\* the screen said to own each field
Owner ==
    [q1 |-> "Q1", q2 |-> "Q2", q3 |-> "Q3", q4 |-> "Q4", q5 |-> "Q5",
     feedback |-> "OpenFeedback", service |-> "Service"]

\* C14: a field of the answers changes only in a step taken with its owning screen on
\* top (Qk for qk, Q5 for the flag, OpenFeedback for the feedback, Service for the
\* category), so Start and Submit change nothing; a step that changes the stack
\* changes the answers only if it is the decline press, Service to Submit with the
\* category emptied.
C14_OwnFieldOnly ==
    /\ [][\A k \in DOMAIN Owner : answers'[k] # answers[k] => Top = Owner[k]]_vars
    /\ [][(stack' # stack /\ answers' # answers) =>
            /\ Top = "Service" /\ Top' = "Submit"
            /\ answers'.service = ""
            /\ \A k \in DOMAIN Owner \ {"service"} : answers'[k] = answers[k]]_vars

\* Q4 on screen with its own rating changed to 2 while the others hold other values
C14_Witness ==
    /\ Top = "Q4"
    /\ answers.q4 = 2
    /\ answers.q1 = 5 /\ answers.q2 = 4 /\ answers.q3 = 3

----------------------------------------------------------------------------
(* C15 *)

\* C15: on OpenFeedback "next" can always be pressed, with an empty text too; it
\* pushes Service and leaves the answers unchanged.
C15_FeedbackNextAlways ==
    /\ [](Top = "OpenFeedback" => ENABLED OpenFeedback_next)
    /\ [][OpenFeedback_next => Pushes("Service") /\ answers' = answers]_vars

\* Service entered from OpenFeedback with nothing typed
C15_Witness ==
    /\ Len(stack) = 8
    /\ SubSeq(stack, 7, 8) = <<"OpenFeedback", "Service">>
    /\ answers.feedback = ""

----------------------------------------------------------------------------
(* C16 *)

\* the rows of an export, without the header
ExportedRows(table) == Tail(exportAll(table))

\* the answer columns of an export row, as a commit of rec is to appear
AnswerColumns(rec) ==
    <<rec.q1, rec.q2, rec.q3, rec.q4, RenderFlag(rec.q5), rec.feedback, rec.service>>

\* C16: the rows of exportAll are in the order in which the commits completed, by
\* ascending identity: a completed commit adds its record as the last row, below
\* every earlier one, and every later export still shows every row in its place.
C16_ExportInCommitOrder ==
    /\ [][\A i \in 1..Len(pending) : PersistenceLayer_commitDone(i) =>
            LET before == ExportedRows(stored)
                after == ExportedRows(stored')
                last == after[Len(after)]
            IN  /\ Len(after) = Len(before) + 1
                /\ SubSeq(last, 3, 9) = AnswerColumns(pending[i])
                /\ \A j \in 1..Len(before) : before[j][1] < last[1]]_vars
    /\ [][\A j \in 1..Len(ExportedRows(stored)) :
            /\ j <= Len(ExportedRows(stored'))
            /\ ExportedRows(stored')[j] = ExportedRows(stored)[j]]_vars
    /\ [](\A j, k \in 1..Len(ExportedRows(stored)) :
            j < k => ExportedRows(stored)[j][1] < ExportedRows(stored)[k][1])

\* three different records committed one after the other, all writes completed
C16_Witness ==
    /\ Len(stored) = 3
    /\ pending = <<>>
    /\ stored[1].q4 = 5 /\ stored[2].q4 = 1 /\ stored[3].q5 = {}
    /\ ExportedRows(stored)[3][7] = ""

----------------------------------------------------------------------------
(* C17 *)

\* the activations that fall in the 900 ms ending at the most recent one
InWindow ==
    {i \in DOMAIN activations : activations[Len(activations)] - activations[i] <= 900}

\* C17: after every activation the gesture yields true exactly when at least 3
\* activations fall in the 900 ms ending at the most recent one: three within 900 ms
\* yield true, three spanning more than 900 ms yield false, two never yield true.
C17_UnlockGesture ==
    activations # <<>> =>
        /\ unlockGesture(taps) <=> Cardinality(InWindow) >= 3
        /\ Len(activations) = 2 => ~unlockGesture(taps)
        /\ Len(activations) = 3 =>
            (unlockGesture(taps) <=> activations[3] - activations[1] <= 900)

\* the third activation 900 ms after the first: the gesture yields true
C17_Witness ==
    /\ Len(activations) = 3
    /\ activations[3] - activations[1] = 900
    /\ unlockGesture(taps)

----------------------------------------------------------------------------
(* C18 *)

\* the items of the picker that name a service
RealServices == {services[i] : i \in 2..Len(services)}

\* C18: Submit is entered with an empty category exactly by the decline press; entered
\* by the normal "next" the category is one of the offered service names; the
\* category does not change while Submit is on screen.
C18_EmptyMeansDeclined ==
    /\ [][(Top # "Submit" /\ Top' = "Submit") =>
            /\ skipService \/ Service_next
            /\ (answers'.service = "") <=> skipService
            /\ Service_next => answers'.service \in RealServices]_vars
    /\ [][Top = "Submit" => answers'.service = answers.service]_vars
    /\ [](Top = "Submit" => answers.service \in {""} \cup RealServices)

\* Submit entered by the normal "next" after OpenFeedback, a service chosen
C18_Witness ==
    /\ stack = LongPath
    /\ answers.service = "Perhevalmennus"

----------------------------------------------------------------------------
(* C19 *)

\* C19: whenever Submit is on screen and the flag is false, the feedback text is empty.
C19_NoFeedbackWhenDeclined ==
    (Top = "Submit" /\ answers.q5 = False) => answers.feedback = ""

----------------------------------------------------------------------------
(* C20 *)

IsPrefix(s, t) == Len(s) <= Len(t) /\ SubSeq(t, 1, Len(s)) = s

\* C20: the stack is never empty, has Start at the bottom, holds no route twice, and is
\* a prefix of one of the two complete paths.
C20_StackIsPathPrefix ==
    /\ Len(stack) >= 1
    /\ stack[1] = "Start"
    /\ \A i, j \in 1..Len(stack) : stack[i] = stack[j] => i = j
    /\ IsPrefix(stack, LongPath) \/ IsPrefix(stack, ShortPath)

\* the longest stack: Submit reached through OpenFeedback
C20_Witness ==
    /\ stack = LongPath
    /\ answers.q5 = True

----------------------------------------------------------------------------
(* C21 *)

OnStack(name) == \E i \in 1..Len(stack) : stack[i] = name

\* C21: the stack agrees with the flag: with OpenFeedback on the stack the flag is
\* true, and with Service directly above Q5 the flag is false; so at Submit the flag
\* is true exactly when OpenFeedback is on the stack.
C21_StackAgreesWithFlag ==
    /\ OnStack("OpenFeedback") => answers.q5 = True
    /\ (\E i \in 1..(Len(stack) - 1) : stack[i] = "Q5" /\ stack[i + 1] = "Service")
            => answers.q5 = False
    /\ Top = "Submit" => (answers.q5 = True <=> OnStack("OpenFeedback"))

\* Submit reached through OpenFeedback with a text typed and the service declined
C21_Witness ==
    /\ stack = LongPath
    /\ answers.q5 = True
    /\ answers.feedback # ""
    /\ answers.service = ""

----------------------------------------------------------------------------
(* C22 *)

\* C22: the category is always "" or one of the service names the picker offers,
\* never the placeholder label; picking the placeholder stores "" and stays on
\* Service, where the normal "next" is then disabled; picking a service stores its
\* name.
C22_CategoryNeverPlaceholder ==
    /\ [](answers.service \in {""} \cup RealServices /\ answers.service # services[1])
    /\ [][Service_onValueChange(services[1]) =>
            answers'.service = "" /\ stack' = stack]_vars
    /\ [][\A i \in 2..Len(services) : Service_onValueChange(services[i]) =>
            answers'.service = services[i]]_vars
    /\ []((Top = "Service" /\ answers.service = "") => ~ENABLED Service_next)

\* Service on screen above OpenFeedback with the category empty and "next" disabled
C22_Witness ==
    /\ Top = "Service"
    /\ stack[Len(stack) - 1] = "OpenFeedback"
    /\ answers.service = ""
    /\ ~ENABLED Service_next

====
